---- MODULE Spec2Model ----
(***************************************************************************)
(* Record store of the patient management application (src/main.py).       *)
(*                                                                         *)
(* The in-memory table patients_df is a sequence of rows; the backing file *)
(* patients.xlsx is the sequence of rows last written by to_excel.  A cell *)
(* keeps the Python type pandas holds for it (str, int, float or NaN),     *)
(* because the handlers compare raw cell values and the reload converts    *)
(* them.  A text is a sequence of one-character strings, so that strip(),  *)
(* int(), str() and isdigit() are computed and not assumed.                *)
(*                                                                         *)
(* Columns kept: SerialNo, PhotoPath, Name, Email, Gender, Age, PhoneNo,   *)
(* AadharNo.  Address, Occupation, Symptoms, Treatment, StartDate, EndDate *)
(* and Satisfied are free text that no handler below inspects; they are    *)
(* left out of the rows.                                                   *)
(***************************************************************************)
EXTENDS Integers, Sequences, FiniteSets, TLC

VARIABLES patients_df, file, ev, save_failures, disk, view

vars == <<patients_df, file, ev, save_failures, disk, view>>

(***************************************************************************)
(* Bounds of the model.                                                    *)
(***************************************************************************)
MaxRows == 3
MaxSerial == 3
MaxSaveFailures == 1

(***************************************************************************)
(* Texts.                                                                  *)
(***************************************************************************)
Digits == {"0", "1", "2", "3", "4", "5", "6", "7", "8", "9"}

DigitVal(c) ==
    CASE c = "0" -> 0 [] c = "1" -> 1 [] c = "2" -> 2 [] c = "3" -> 3
      [] c = "4" -> 4 [] c = "5" -> 5 [] c = "6" -> 6 [] c = "7" -> 7
      [] c = "8" -> 8 [] c = "9" -> 9

DigitChar(d) ==
    CASE d = 0 -> "0" [] d = 1 -> "1" [] d = 2 -> "2" [] d = 3 -> "3"
      [] d = 4 -> "4" [] d = 5 -> "5" [] d = 6 -> "6" [] d = 7 -> "7"
      [] d = 8 -> "8" [] d = 9 -> "9"

AllDigits(s) == \A i \in 1..Len(s) : s[i] \in Digits

\* str.isdigit(): non-empty and every character a digit.
IsDigitStr(s) == Len(s) > 0 /\ AllDigits(s)

RECURSIVE LStrip(_)
LStrip(s) == IF Len(s) > 0 /\ Head(s) = " " THEN LStrip(Tail(s)) ELSE s

RECURSIVE RStrip(_)
RStrip(s) ==
    IF Len(s) > 0 /\ s[Len(s)] = " " THEN RStrip(SubSeq(s, 1, Len(s) - 1)) ELSE s

\* str.strip()
Strip(s) == RStrip(LStrip(s))

RECURSIVE DigitsVal(_)
DigitsVal(s) ==
    IF Len(s) = 0 THEN 0
    ELSE 10 * DigitsVal(SubSeq(s, 1, Len(s) - 1)) + DigitVal(s[Len(s)])

RECURSIVE NatStr(_)
NatStr(n) == IF n < 10 THEN <<DigitChar(n)>> ELSE NatStr(n \div 10) \o <<DigitChar(n % 10)>>

\* str(n) of a Python int.
IntStr(n) == IF n < 0 THEN <<"-">> \o NatStr(0 - n) ELSE NatStr(n)

\* A signed decimal literal without surrounding blanks: [+-]digits.
SignedVal(t) ==
    IF Len(t) > 0 /\ Head(t) \in {"-", "+"}
    THEN IF IsDigitStr(Tail(t))
         THEN [ok |-> TRUE, v |-> IF Head(t) = "-" THEN 0 - DigitsVal(Tail(t)) ELSE DigitsVal(Tail(t))]
         ELSE [ok |-> FALSE, v |-> 0]
    ELSE IF IsDigitStr(t) THEN [ok |-> TRUE, v |-> DigitsVal(t)]
         ELSE [ok |-> FALSE, v |-> 0]

\* int(s) of a Python str: surrounding whitespace is ignored, a sign is
\* allowed; ok = FALSE stands for ValueError.
PyInt(s) == SignedVal(Strip(s))

(***************************************************************************)
(* Cells.                                                                  *)
(***************************************************************************)
\* A cell is a str, an int, a float with an integral value, or NaN.
StrCell(s) == [k |-> "str", s |-> s, n |-> 0]
IntCell(n) == [k |-> "int", s |-> <<>>, n |-> n]
FltCell(n) == [k |-> "flt", s |-> <<>>, n |-> n]
NaN == [k |-> "nan", s |-> <<>>, n |-> 0]

\* str(cell)
PyStr(c) ==
    CASE c.k = "str" -> c.s
      [] c.k = "int" -> IntStr(c.n)
      [] c.k = "flt" -> IntStr(c.n) \o <<".", "0">>
      [] c.k = "nan" -> <<"n", "a", "n">>

\* Python's ==  between a str and a cell value: a str equals only a str.
EqStr(c, s) == c.k = "str" /\ c.s = s

\* pd.to_numeric(value, errors='coerce'); ok = FALSE stands for NaN.  The
\* texts of the model hold digits, a sign, blanks and letters only.
ToNumeric(c) ==
    CASE c.k = "str" -> SignedVal(Strip(c.s))
      [] c.k = "int" -> [ok |-> TRUE, v |-> c.n]
      [] c.k = "flt" -> [ok |-> TRUE, v |-> c.n]
      [] c.k = "nan" -> [ok |-> FALSE, v |-> 0]

SetMax(S) == CHOOSE m \in S : \A x \in S : x <= m

\* The numeric SerialNo values of a table (NaN dropped).
NumericSerials(df) ==
    {ToNumeric(df[i].SerialNo).v : i \in {j \in 1..Len(df) : ToNumeric(df[j].SerialNo).ok}}

\* NextSerial with the row count taken for the largest serial.
NextSerialByCount(df) == Len(df) + 1

\* show_new_patient / _new_clear: int(numeric_serials.max()) + 1, or 1 when
\* no SerialNo is numeric.
NextSerial(df) ==
    IF NumericSerials(df) = {} THEN 1 ELSE SetMax(NumericSerials(df)) + 1

\* str(serial) in self.patients_df['SerialNo'].values: the raw cell values
\* are compared with a str.
SerialInValues(df, s) == \E i \in 1..Len(df) : EqStr(df[i].SerialNo, s)

(***************************************************************************)
(* Persistence: to_excel writes the cells as they are, read_excel converts *)
(* them.                                                                   *)
(***************************************************************************)
\* The columns that some handler treats by name; the seven others (Address,
\* Occupation, Symptoms, Treatment, StartDate, EndDate, Satisfied) are free
\* text handled like Email.
DEFAULT_COLUMNS ==
    {"SerialNo", "PhotoPath", "Name", "Email", "Gender", "Age", "PhoneNo", "AadharNo"}

\* DEFAULT_COLUMNS in the order of the list.
ColumnOrder ==
    <<"SerialNo", "PhotoPath", "Name", "Email", "Gender", "Age", "PhoneNo", "AadharNo">>

\* The columns read with dtype str.
StrColumns == {"SerialNo", "AadharNo", "PhoneNo"}

\* An empty cell of the sheet: NaN or the empty str.
IsBlank(c) == c.k = "nan" \/ (c.k = "str" /\ c.s = <<>>)

\* A cell of a dtype-str column as read back: a number comes back as its
\* text, an empty cell as NaN.
ReadStr(c) ==
    CASE IsBlank(c) -> NaN
      [] c.k = "str" /\ c.s # <<>> -> c
      [] c.k \in {"int", "flt"} -> StrCell(IntStr(c.n))

\* A column without dtype is converted to numbers when every cell of it is
\* a number, a text that parses as one, or empty.
ColumnIsNumeric(f, col) ==
    \A i \in 1..Len(f) : IsBlank(f[i][col]) \/ ToNumeric(f[i][col]).ok

ColumnHasBlank(f, col) == \E i \in 1..Len(f) : IsBlank(f[i][col])

ReadObj(f, col, i) ==
    LET c == f[i][col] IN
    IF IsBlank(c) THEN NaN
    ELSE IF ColumnIsNumeric(f, col)
         THEN IF ColumnHasBlank(f, col) THEN FltCell(ToNumeric(c).v)
              ELSE IntCell(ToNumeric(c).v)
         ELSE IF c.k = "flt" THEN IntCell(c.n) ELSE c

\* load_patients on a readable file.
LoadPatients(f) ==
    [i \in 1..Len(f) |->
        [col \in DEFAULT_COLUMNS |->
            IF col \in StrColumns THEN ReadStr(f[i][col]) ELSE ReadObj(f, col, i)]]

\* save_patients: to_excel then reload; when to_excel raises, the error is
\* shown and neither the file nor the table changes.
SavePatients(df, f, ok) ==
    IF ok THEN [df |-> LoadPatients(df), file |-> df, msgs |-> <<>>]
    ELSE [df |-> df, file |-> f, msgs |-> <<"showerror: Could not save patients.xlsx">>]

(***************************************************************************)
(* The handlers.  ev records the handler that ran last: the message boxes  *)
(* it showed, in order, the count it reported, and whether an exception    *)
(* left it uncaught.  After show_new_patient and _new_submit the count is   *)
(* the serial the registration form offers.                                *)
(***************************************************************************)
TxtA == <<"A">>
TxtB == <<"B">>
TxtMail == <<"a", "@", "x">>
TxtMale == <<"M", "a", "l", "e">>
TxtAge == <<"3", "0">>
TxtPhone == <<"7">>
TxtPhoto == <<"p">>

Event(op, n, msgs, raised) == [op |-> op, n |-> n, msgs |-> msgs, raised |-> raised]

\* The registration form as the user may fill it in.
BaseForm(s) ==
    [serial |-> s, name |-> TxtA, email |-> TxtMail, gender |-> TxtMale, age |-> TxtAge,
     phone |-> TxtPhone, aadhar |-> <<>>, photo |-> FALSE]

CreateSerials == {<<"1">>, <<"2">>, <<" ", "1">>, <<"x">>, <<>>}

RequiredFields == <<"name", "email", "gender", "age", "phone">>

NewForms(offered) ==
    {BaseForm(s) : s \in CreateSerials \cup {offered}}
    \cup {[BaseForm(offered) EXCEPT ![RequiredFields[j]] = b] :
            j \in 1..Len(RequiredFields), b \in {<<>>, <<" ">>}}
    \cup {[BaseForm(offered) EXCEPT !.age = <<"b", "a", "d">>]}

ErrFill(r) == "showerror: Please fill " \o r
\* The first required field that is blank after strip(), 0 when none is.
FirstBlank(form) ==
    IF \E j \in 1..Len(RequiredFields) : Strip(form[RequiredFields[j]]) = <<>>
    THEN CHOOSE j \in 1..Len(RequiredFields) :
            /\ Strip(form[RequiredFields[j]]) = <<>>
            /\ \A h \in 1..(j - 1) : Strip(form[RequiredFields[h]]) # <<>>
    ELSE 0

\* NewSubmitError without the check of Age.
NewSubmitErrorNoAge(df, form) ==
    IF FirstBlank(form) # 0 THEN ErrFill(RequiredFields[FirstBlank(form)])
    ELSE IF ~PyInt(form.serial).ok THEN "showerror: Serial must be numeric"
    ELSE IF SerialInValues(df, IntStr(PyInt(form.serial).v)) THEN "showerror: Serial number already exists."
    ELSE ""

\* The checks of _new_submit in their order: the message of the first one
\* that fails, "" when the form is accepted.
NewSubmitError(df, form) ==
    IF FirstBlank(form) # 0 THEN ErrFill(RequiredFields[FirstBlank(form)])
    ELSE IF ~PyInt(form.age).ok THEN "showerror: Age must be a numeric value."
    ELSE IF ~PyInt(form.serial).ok THEN "showerror: Serial must be numeric"
    ELSE IF SerialInValues(df, IntStr(PyInt(form.serial).v)) THEN "showerror: Serial number already exists."
    ELSE ""

\* The new_patient dict of an accepted form.
NewPatient(form) ==
    [SerialNo |-> IntCell(PyInt(form.serial).v),
     PhotoPath |-> StrCell(IF form.photo THEN TxtPhoto ELSE <<>>),
     Name |-> StrCell(Strip(form.name)),
     Email |-> StrCell(Strip(form.email)),
     Gender |-> StrCell(form.gender),
     Age |-> IntCell(PyInt(form.age).v),
     PhoneNo |-> StrCell(Strip(form.phone)),
     AadharNo |-> StrCell(Strip(form.aadhar))]

\* pd.concat([patients_df, DataFrame([new_patient])], ignore_index=True)
ConcatRow(df, row) == Append(df, row)

\* to_excel may fail (the file is locked or read-only) MaxSaveFailures times.
SaveChoice(ok) == ok \/ save_failures < MaxSaveFailures

CountFailure(ok) == save_failures' = IF ok THEN save_failures ELSE save_failures + 1

\* patients.xlsx as ensure_datafile writes it: a readable sheet with the
\* header DEFAULT_COLUMNS; file holds its rows.
FreshDisk == [state |-> "sheet", header |-> ColumnOrder]

\* No list page is open.
NoView ==
    [page |-> "", search |-> <<>>, gender |-> <<>>, sort_by |-> "", i |-> 0,
     rows |-> <<>>, total |-> 0, pages |-> 0, checked |-> {}]

\* The handlers of the store leave the condition of patients.xlsx and the
\* list pages as they are.
StoreOnly == UNCHANGED <<disk, view>>

Init ==
    /\ file = <<>>
    /\ patients_df = LoadPatients(file)
    /\ ev = Event("start", 0, <<>>, FALSE)
    /\ save_failures = 0
    /\ disk = FreshDisk
    /\ view = NoView

\* show_new_patient: the form opens with the next serial offered.
ShowNewPatient ==
    /\ ev' = Event("show_new_patient", NextSerial(patients_df), <<>>, FALSE)
    /\ UNCHANGED <<patients_df, file, save_failures>>

\* _new_submit on a filled form, with the _new_clear that ends it; ok tells
\* whether to_excel succeeds.
NewSubmitOn(form, ok) ==
    LET err == NewSubmitError(patients_df, form)
        sv == SavePatients(ConcatRow(patients_df, NewPatient(form)), file, ok)
    IN  IF err # ""
        THEN /\ ok
             /\ ev' = Event("new_submit", 0, <<err>>, FALSE)
             /\ UNCHANGED <<patients_df, file, save_failures>>
        ELSE /\ Len(patients_df) < MaxRows
             /\ PyInt(form.serial).v <= MaxSerial
             /\ SaveChoice(ok)
             /\ patients_df' = sv.df
             /\ file' = sv.file
             /\ ev' = Event("new_submit", NextSerial(sv.df), sv.msgs \o <<"showinfo: Patient registered">>, FALSE)
             /\ CountFailure(ok)

\* The form is the one show_new_patient or _new_clear left, with the serial
\* computed from the table, as the user then fills it in.
NewSubmit ==
    \E form \in NewForms(IntStr(NextSerial(patients_df))), ok \in BOOLEAN :
        NewSubmitOn(form, ok)

(***************************************************************************)
(* Lists show a cell as str(cell); tree.item(iid)['values'] hands the text *)
(* back through tkinter's _convert_stringval, which turns every text that  *)
(* int() accepts into an int.                                              *)
(***************************************************************************)
TkValue(c) ==
    IF PyInt(PyStr(c)).ok THEN IntCell(PyInt(PyStr(c)).v) ELSE StrCell(PyStr(c))

\* str(tree.item(iid)['values'][k]) for a displayed cell.
TreeText(c) == PyStr(TkValue(c))

\* self.patients_df[self.patients_df['SerialNo'] == str(serial)].index, as
\* the set of row positions (the first row has index label 0).
SerialIndex(df, s) == {i \in 1..Len(df) : EqStr(df[i].SerialNo, s)}

SetMin(S) == CHOOSE m \in S : \A x \in S : m <= x

\* idx_list.any(): some index label is truthy, that is, not 0.
IndexAny(idx) == \E i \in idx : i - 1 # 0

\* str(original_serial) of the edit windows that are open: a window stays
\* open while the table changes, so its row may be gone.
WindowSerials == {<<"1">>, <<"2">>, <<"x">>}

EditSerials == {<<"2">>, <<"0", "1">>, <<"x">>}

\* The entries of the edit window as the user leaves them.
Patches ==
    {[SerialNo |-> s, Name |-> n, Email |-> TxtMail, Gender |-> TxtMale, Age |-> TxtAge,
      PhoneNo |-> TxtPhone, AadharNo |-> <<>>] : s \in EditSerials, n \in {TxtB}}

EntryColumns == {"SerialNo", "Name", "Email", "Gender", "Age", "PhoneNo", "AadharNo"}

\* for col, var in entries.items(): self.patients_df.at[idx, col] = var.get()
\* (a str stored in a numeric column turns the column into an object column)
OverwriteRow(df, idx, patch) ==
    [df EXCEPT ![idx] =
        [col \in DEFAULT_COLUMNS |->
            IF col \in EntryColumns THEN StrCell(patch[col]) ELSE df[idx][col]]]

\* save_changes of the edit window opened on original_serial.
SaveChangesOn(orig, patch, ok) ==
    LET idx_list == SerialIndex(patients_df, orig)
        sv == SavePatients(OverwriteRow(patients_df, SetMin(idx_list), patch), file, ok)
    IN  IF ~IndexAny(idx_list)
        THEN /\ ok
             /\ ev' = Event("save_changes", 0, <<"showerror: Could not find patient to update.">>, FALSE)
             /\ UNCHANGED <<patients_df, file, save_failures>>
        ELSE IF patch.SerialNo # orig /\ SerialInValues(patients_df, patch.SerialNo)
        THEN /\ ok
             /\ ev' = Event("save_changes", 0, <<"showerror: Serial number already exists.">>, FALSE)
             /\ UNCHANGED <<patients_df, file, save_failures>>
        ELSE /\ SaveChoice(ok)
             /\ patients_df' = sv.df
             /\ file' = sv.file
             /\ ev' = Event("save_changes", 0, sv.msgs \o <<"showinfo: Patient updated">>, FALSE)
             /\ CountFailure(ok)

SaveChanges ==
    \E orig \in WindowSerials, patch \in Patches, ok \in BOOLEAN :
        SaveChangesOn(orig, patch, ok)

\* str(serial) of the edit windows whose photo buttons are pressed.
PhotoSerials == {<<"1">>, <<"2">>}

SetPhoto(df, idx, c) == [df EXCEPT ![idx].PhotoPath = c]

\* _edit_add_photo: pick is "cancel" when no file is chosen, "bad" when the
\* image cannot be opened or written, "good" otherwise.  index[0] of an
\* empty index raises IndexError inside the try.
EditAddPhotoOn(serial, pick, ok) ==
    LET idx_list == SerialIndex(patients_df, serial)
        sv == SavePatients(SetPhoto(patients_df, SetMin(idx_list), StrCell(TxtPhoto)), file, ok)
    IN  IF pick = "cancel"
        THEN /\ ok
             /\ ev' = Event("edit_add_photo", 0, <<>>, FALSE)
             /\ UNCHANGED <<patients_df, file, save_failures>>
        ELSE IF pick = "bad" \/ idx_list = {}
        THEN /\ ok
             /\ ev' = Event("edit_add_photo", 0, <<"showerror: Could not update photo">>, FALSE)
             /\ UNCHANGED <<patients_df, file, save_failures>>
        ELSE /\ SaveChoice(ok)
             /\ patients_df' = sv.df
             /\ file' = sv.file
             /\ ev' = Event("edit_add_photo", 0, sv.msgs \o <<"showinfo: Photo updated successfully.">>, FALSE)
             /\ CountFailure(ok)

EditAddPhoto ==
    \E serial \in PhotoSerials, pick \in {"cancel", "bad", "good"}, ok \in BOOLEAN :
        EditAddPhotoOn(serial, pick, ok)

\* not path: the empty str is falsy, NaN and any other str are truthy.
Falsy(c) == c.k = "str" /\ c.s = <<>>

\* _edit_remove_photo: index[0] is taken outside any try, so an empty index
\* leaves the handler with IndexError.  there tells whether the photo file
\* exists, answer is "no", "yes" or "fail" (confirmed, os.remove raises).
EditRemovePhotoOn(serial, there, answer, ok) ==
    LET idx_list == SerialIndex(patients_df, serial)
        idx == SetMin(idx_list)
        sv == SavePatients(SetPhoto(patients_df, idx, StrCell(<<>>)), file, ok)
    IN  IF idx_list = {}
        THEN /\ ok /\ there /\ answer = "yes"
             /\ ev' = Event("edit_remove_photo", 0, <<>>, TRUE)
             /\ UNCHANGED <<patients_df, file, save_failures>>
        ELSE IF Falsy(patients_df[idx].PhotoPath) \/ ~there
        THEN /\ ok /\ answer = "yes"
             /\ ev' = Event("edit_remove_photo", 0, <<"showinfo: No photo to remove.">>, FALSE)
             /\ UNCHANGED <<patients_df, file, save_failures>>
        ELSE IF answer = "no"
        THEN /\ ok
             /\ ev' = Event("edit_remove_photo", 0, <<>>, FALSE)
             /\ UNCHANGED <<patients_df, file, save_failures>>
        ELSE IF answer = "fail"
        THEN /\ ok
             /\ ev' = Event("edit_remove_photo", 0, <<"showerror: Could not remove photo">>, FALSE)
             /\ UNCHANGED <<patients_df, file, save_failures>>
        ELSE /\ SaveChoice(ok)
             /\ patients_df' = sv.df
             /\ file' = sv.file
             /\ ev' = Event("edit_remove_photo", 0, sv.msgs \o <<"showinfo: Photo removed successfully.">>, FALSE)
             /\ CountFailure(ok)

EditRemovePhoto ==
    \E serial \in PhotoSerials, there \in BOOLEAN, answer \in {"no", "yes", "fail"},
       ok \in BOOLEAN :
        EditRemovePhotoOn(serial, there, answer, ok)

(***************************************************************************)
(* Delete page.                                                            *)
(***************************************************************************)
\* Series.isin(list of str): a cell matches when it is a str of the list.
IsIn(c, ids) == c.k = "str" /\ c.s \in ids

KeepRow(r, ids) == ~IsIn(r.SerialNo, ids)

\* self.patients_df[~self.patients_df['SerialNo'].isin(ids)].reset_index(drop=True)
DropRows(df, ids) == SelectSeq(df, LAMBDA r : KeepRow(r, ids))

\* serials_to_delete of the checked rows of the list, as a set; the list has
\* one entry per checked row.
CheckedSerials(df, checked) == {TreeText(df[i].SerialNo) : i \in checked}

\* The count _delete_checked reports: len(serials_to_delete).
ReportedCount(checked) == Cardinality(checked)

\* _delete_checked: checked are the rows of the list whose box is ticked,
\* confirm the answer to askyesno.
DeleteCheckedOn(checked, confirm, ok) ==
    LET sv == SavePatients(DropRows(patients_df, CheckedSerials(patients_df, checked)), file, ok)
    IN  IF checked = {}
        THEN /\ ok /\ confirm
             /\ ev' = Event("delete_checked", 0, <<"showwarning: No checked records to delete">>, FALSE)
             /\ UNCHANGED <<patients_df, file, save_failures>>
        ELSE IF ~confirm
        THEN /\ ok
             /\ ev' = Event("delete_checked", 0, <<>>, FALSE)
             /\ UNCHANGED <<patients_df, file, save_failures>>
        ELSE /\ SaveChoice(ok)
             /\ patients_df' = sv.df
             /\ file' = sv.file
             /\ ev' = Event("delete_checked", ReportedCount(checked),
                            sv.msgs \o <<"showinfo: Deleted records">>, FALSE)
             /\ CountFailure(ok)

DeleteChecked ==
    \E checked \in SUBSET (1..Len(patients_df)), confirm \in BOOLEAN, ok \in BOOLEAN :
        DeleteCheckedOn(checked, confirm, ok)

(***************************************************************************)
(* Import.                                                                 *)
(***************************************************************************)
\* Rows of an external sheet as pd.read_excel(path) returns them, with the
\* DEFAULT_COLUMNS it lacks filled with ''.
ExtRow(serial) ==
    [SerialNo |-> serial, PhotoPath |-> StrCell(<<>>), Name |-> StrCell(TxtA),
     Email |-> StrCell(TxtMail), Gender |-> StrCell(TxtMale), Age |-> IntCell(30),
     PhoneNo |-> IntCell(7), AadharNo |-> StrCell(<<>>)]

ExtTables ==
    {<<>>, <<ExtRow(IntCell(1))>>, <<ExtRow(IntCell(1)), ExtRow(StrCell(<<"x">>))>>}

\* max_existing_serial taken from the number of rows.
MaxExistingSerialByCount(df) == Len(df)

\* max_existing_serial
MaxExistingSerial(df) ==
    IF NumericSerials(df) = {} THEN 0 ELSE SetMax(NumericSerials(df))

\* new_df['SerialNo'] = range(max_existing_serial + 1, max_existing_serial + 1 + len(new_df))
Renumber(ext, max) == [j \in 1..Len(ext) |-> [ext[j] EXCEPT !.SerialNo = IntCell(max + j)]]

\* pd.concat([self.patients_df, new_df], ignore_index=True)
ConcatFramesNewOnly(df, new_df) == new_df
ConcatFrames(df, new_df) == df \o new_df

\* _import_db: choice is "cancel" (no file chosen or not confirmed), "bad"
\* (read_excel raises) or "good".
ImportDbOn(choice, ext, ok) ==
    LET new_df == Renumber(ext, MaxExistingSerial(patients_df))
        sv == SavePatients(ConcatFrames(patients_df, new_df), file, ok)
    IN  IF choice = "cancel"
        THEN /\ ok /\ ext = <<>>
             /\ ev' = Event("import_db", 0, <<>>, FALSE)
             /\ UNCHANGED <<patients_df, file, save_failures>>
        ELSE IF choice = "bad"
        THEN /\ ok /\ ext = <<>>
             /\ ev' = Event("import_db", 0, <<"showerror: Could not import">>, FALSE)
             /\ UNCHANGED <<patients_df, file, save_failures>>
        ELSE /\ Len(patients_df) + Len(ext) <= MaxRows
             /\ MaxExistingSerial(patients_df) + Len(ext) <= MaxSerial
             /\ SaveChoice(ok)
             /\ patients_df' = sv.df
             /\ file' = sv.file
             /\ ev' = Event("import_db", Len(new_df), sv.msgs \o <<"showinfo: Database imported successfully.">>, FALSE)
             /\ CountFailure(ok)

ImportDb ==
    \E choice \in {"cancel", "bad", "good"}, ext \in ExtTables, ok \in BOOLEAN :
        ImportDbOn(choice, ext, ok)

(***************************************************************************)
(* Duplicates page.                                                        *)
(***************************************************************************)
dup_cols == {"Name", "Email", "PhoneNo", "AadharNo"}

\* Equality of two cell values as pandas hashes them: NaN matches NaN, an
\* int matches the float of the same value.
SameValue(a, b) ==
    \/ a = b
    \/ a.k \in {"int", "flt"} /\ b.k \in {"int", "flt"} /\ a.n = b.n

SameKey(r, q) == \A col \in dup_cols : SameValue(r[col], q[col])

\* dropna(subset=dup_cols, how='all') keeps a row unless all four are NaN.
HasKey(r) == \E col \in dup_cols : r[col].k # "nan"

\* The rows of df_dups, as row positions.
DupRows(df) ==
    {i \in 1..Len(df) :
        /\ HasKey(df[i])
        /\ \E j \in 1..Len(df) : j # i /\ HasKey(df[j]) /\ SameKey(df[i], df[j])}

\* The page lists duplicates unless df_dups is empty.
DupPageShown(df) == DupRows(df) # {}

\* What askstring returns; the empty text also stands for Cancel.
DupSerials == {<<>>, <<"2">>, <<"0", "1">>, <<"x">>}

SetSerial(df, idx, s) == [df EXCEPT ![idx].SerialNo = StrCell(s)]

\* _edit_duplicate_serial on row i of the list.
EditDuplicateSerialOn(i, new_serial, ok) ==
    LET original_serial == TkValue(patients_df[i].SerialNo)
        idx_list == SerialIndex(patients_df, PyStr(original_serial))
        sv == SavePatients(SetSerial(patients_df, SetMin(idx_list), new_serial), file, ok)
    IN  IF new_serial = <<>> \/ EqStr(original_serial, new_serial)
        THEN /\ ok
             /\ ev' = Event("edit_duplicate_serial", 0, <<>>, FALSE)
             /\ UNCHANGED <<patients_df, file, save_failures>>
        ELSE IF ~IsDigitStr(new_serial)
        THEN /\ ok
             /\ ev' = Event("edit_duplicate_serial", 0, <<"showerror: Serial number must be a numeric value.">>, FALSE)
             /\ UNCHANGED <<patients_df, file, save_failures>>
        ELSE IF SerialInValues(patients_df, new_serial)
        THEN /\ ok
             /\ ev' = Event("edit_duplicate_serial", 0, <<"showerror: Serial number already exists.">>, FALSE)
             /\ UNCHANGED <<patients_df, file, save_failures>>
        ELSE IF idx_list = {}
        THEN /\ ok
             /\ ev' = Event("edit_duplicate_serial", 0, <<>>, TRUE)
             /\ UNCHANGED <<patients_df, file, save_failures>>
        ELSE /\ SaveChoice(ok)
             /\ patients_df' = sv.df
             /\ file' = sv.file
             /\ ev' = Event("edit_duplicate_serial", 0, sv.msgs \o <<"showinfo: Serial number updated.">>, FALSE)
             /\ CountFailure(ok)

EditDuplicateSerial ==
    /\ DupPageShown(patients_df)
    /\ \E i \in DupRows(patients_df), new_serial \in DupSerials, ok \in BOOLEAN :
          EditDuplicateSerialOn(i, new_serial, ok)

\* delete_selected_duplicates on the ticked rows of the list.
DeleteSelectedDuplicatesOn(checked, confirm, ok) ==
    LET sv == SavePatients(DropRows(patients_df, CheckedSerials(patients_df, checked)), file, ok)
    IN  IF checked = {}
        THEN /\ ok /\ confirm
             /\ ev' = Event("delete_selected_duplicates", 0, <<"showwarning: Select records to delete.">>, FALSE)
             /\ UNCHANGED <<patients_df, file, save_failures>>
        ELSE IF ~confirm
        THEN /\ ok
             /\ ev' = Event("delete_selected_duplicates", 0, <<>>, FALSE)
             /\ UNCHANGED <<patients_df, file, save_failures>>
        ELSE /\ SaveChoice(ok)
             /\ patients_df' = sv.df
             /\ file' = sv.file
             /\ ev' = Event("delete_selected_duplicates", 0, sv.msgs \o <<"showinfo: Selected duplicates deleted.">>, FALSE)
             /\ CountFailure(ok)

DeleteSelectedDuplicates ==
    /\ DupPageShown(patients_df)
    /\ \E checked \in SUBSET DupRows(patients_df), confirm \in BOOLEAN, ok \in BOOLEAN :
          DeleteSelectedDuplicatesOn(checked, confirm, ok)

(***************************************************************************)
(* Startup: __init__ runs ensure_datafile and then load_patients.  disk is *)
(* the condition of patients.xlsx ("absent", "corrupt" for a file that     *)
(* read_excel cannot read, "sheet") with the header of the sheet; file     *)
(* holds the rows of the sheet, each over the columns of the header.       *)
(***************************************************************************)
Range(s) == {s[i] : i \in 1..Len(s)}

\* A sheet written before PhotoPath and AadharNo were added, one with a
\* column the program does not know, one with the columns in another order.
OldHeader == <<"SerialNo", "Name", "Email", "Gender", "Age", "PhoneNo">>
WideHeader == ColumnOrder \o <<"Notes">>
TurnedHeader ==
    <<"AadharNo", "PhoneNo", "Age", "Gender", "Email", "Name", "PhotoPath", "SerialNo">>

StartHeaders == {ColumnOrder, OldHeader, WideHeader, TurnedHeader}

\* Rows as a sheet holds them.
SheetRow(serial, name, age) ==
    [SerialNo |-> serial, PhotoPath |-> NaN, Name |-> StrCell(name),
     Email |-> StrCell(TxtMail), Gender |-> StrCell(TxtMale), Age |-> age,
     PhoneNo |-> IntCell(7), AadharNo |-> NaN, Notes |-> StrCell(TxtB)]

StartRows ==
    {<<>>,
     <<SheetRow(IntCell(1), TxtA, IntCell(30))>>,
     <<SheetRow(StrCell(<<"0", "1">>), TxtB, NaN)>>,
     <<SheetRow(IntCell(1), TxtA, IntCell(30)), SheetRow(IntCell(2), TxtB, NaN)>>,
     <<SheetRow(IntCell(2), TxtA, StrCell(<<"x">>)), SheetRow(IntCell(1), TxtA, IntCell(30))>>,
     <<SheetRow(NaN, TxtA, IntCell(30)), SheetRow(IntCell(1), TxtA, IntCell(30))>>}

\* The rows of a sheet with the header hdr.
OverHeader(hdr, rows) ==
    [i \in 1..Len(rows) |-> [col \in Range(hdr) |-> rows[i][col]]]

\* for c in DEFAULT_COLUMNS: if c not in df.columns: df[c] = ''  appends the
\* absent columns after the columns of the sheet.
FillColumns(hdr) ==
    hdr \o SelectSeq(ColumnOrder, LAMBDA c : c \notin Range(hdr))

\* df[DEFAULT_COLUMNS]: the columns of the result, in the order asked for.
LoadedColumns(hdr) ==
    SelectSeq(ColumnOrder, LAMBDA c : c \in Range(FillColumns(hdr)))

\* ReadDataFile with the absent columns left without a value.
ReadDataFileNoFill(d, f) ==
    IF d.state # "sheet" THEN <<>>
    ELSE [i \in 1..Len(f) |->
            [col \in Range(LoadedColumns(d.header)) |->
                IF col \notin Range(d.header) THEN NaN
                ELSE IF col \in StrColumns THEN ReadStr(f[i][col]) ELSE ReadObj(f, col, i)]]

\* load_patients on patients.xlsx in any condition: a file that cannot be
\* read gives pd.DataFrame(columns=DEFAULT_COLUMNS); the columns the sheet
\* lacks are filled with ''.
ReadDataFile(d, f) ==
    IF d.state # "sheet" THEN <<>>
    ELSE [i \in 1..Len(f) |->
            [col \in Range(LoadedColumns(d.header)) |->
                IF col \notin Range(d.header) THEN StrCell(<<>>)
                ELSE IF col \in StrColumns THEN ReadStr(f[i][col]) ELSE ReadObj(f, col, i)]]

\* The process starts: nothing is loaded yet.
InitStart ==
    /\ \E st \in {"absent", "corrupt", "sheet"}, hdr \in StartHeaders, rows \in StartRows :
          /\ disk = [state |-> st, header |-> IF st = "absent" THEN <<>> ELSE hdr]
          /\ file = IF st = "absent" THEN <<>> ELSE OverHeader(hdr, rows)
    /\ patients_df = <<>>
    /\ ev = Event("boot", 0, <<>>, FALSE)
    /\ save_failures = 0
    /\ view = NoView

\* ensure_datafile: writes an empty sheet when patients.xlsx does not
\* exist; to_excel is not guarded, so a failing write ends __init__.
EnsureDatafile ==
    /\ ev.op = "boot"
    /\ \E ok \in BOOLEAN :
          IF disk.state = "absent"
          THEN IF ok
               THEN /\ disk' = FreshDisk
                    /\ file' = <<>>
                    /\ ev' = Event("ensure_datafile", 0, <<>>, FALSE)
               ELSE /\ ev' = Event("ensure_datafile", 0, <<>>, TRUE)
                    /\ UNCHANGED <<disk, file>>
          ELSE /\ ok
               /\ ev' = Event("ensure_datafile", 0, <<>>, FALSE)
               /\ UNCHANGED <<disk, file>>
    /\ UNCHANGED <<patients_df, save_failures, view>>

\* self.patients_df = self.load_patients() of __init__.
LoadAtStart ==
    /\ ev.op = "ensure_datafile"
    /\ ~ev.raised
    /\ patients_df' = ReadDataFile(disk, file)
    /\ ev' = Event("load_patients", 0, <<>>, FALSE)
    /\ UNCHANGED <<file, save_failures, disk, view>>

(***************************************************************************)
(* save_patients on its own, applied to a table a handler has prepared.    *)
(***************************************************************************)
TxtZeros == <<"0", "0", "7">>

\* The rows a handler can hand to save_patients: a serial as _new_submit or
\* the edit window leaves it, free text that may consist of digits, an Age
\* as int or as the text of the edit window, AadharNo blank or filled.
SaveRows ==
    {[SerialNo |-> s, PhotoPath |-> StrCell(<<>>), Name |-> StrCell(n),
      Email |-> StrCell(TxtMail), Gender |-> StrCell(TxtMale), Age |-> a,
      PhoneNo |-> StrCell(TxtPhone), AadharNo |-> StrCell(d)] :
        s \in {IntCell(1), StrCell(<<"0", "1">>)},
        n \in {TxtA, TxtZeros, <<>>},
        a \in {IntCell(30), StrCell(TxtAge)},
        d \in {<<>>, <<"1", "2">>}}

SaveTables == {<<r>> : r \in SaveRows} \cup {<<r, q>> : r \in SaveRows, q \in SaveRows}

InitSave ==
    /\ patients_df \in SaveTables
    /\ file = <<>>
    /\ ev = Event("start", 0, <<>>, FALSE)
    /\ save_failures = 0
    /\ disk = FreshDisk
    /\ view = NoView

\* save_patients
SaveStep ==
    \E ok \in BOOLEAN :
        LET sv == SavePatients(patients_df, file, ok)
        IN  /\ ev.op = "start"
            /\ SaveChoice(ok)
            /\ patients_df' = sv.df
            /\ file' = sv.file
            /\ ev' = Event("save_patients", 0, sv.msgs, FALSE)
            /\ CountFailure(ok)
            /\ StoreOnly

(***************************************************************************)
(* List pages: search, filter, sort, paging.                               *)
(***************************************************************************)
PAGE_SIZE == 24

\* The longest list of the model: two full pages and a row.
MaxListLen == 49
MaxStatRows == 2

UpperCase == <<"A", "B", "C", "D", "E", "F", "G", "H", "I", "J", "K", "L", "M",
               "N", "O", "P", "Q", "R", "S", "T", "U", "V", "W", "X", "Y", "Z">>
LowerCase == <<"a", "b", "c", "d", "e", "f", "g", "h", "i", "j", "k", "l", "m",
               "n", "o", "p", "q", "r", "s", "t", "u", "v", "w", "x", "y", "z">>

\* The characters of the model's texts in code point order.
CodePoints ==
    <<" ", "+", "-", ".", "0", "1", "2", "3", "4", "5", "6", "7", "8", "9", "@">>
        \o UpperCase \o LowerCase

OrdTable ==
    [ch \in {CodePoints[k] : k \in 1..Len(CodePoints)} |->
        CHOOSE k \in 1..Len(CodePoints) : CodePoints[k] = ch]

Ord(ch) == OrdTable[ch]

\* str.lower()
Lower(s) ==
    [k \in 1..Len(s) |->
        IF \E u \in 1..Len(UpperCase) : UpperCase[u] = s[k]
        THEN LowerCase[CHOOSE u \in 1..Len(UpperCase) : UpperCase[u] = s[k]]
        ELSE s[k]]

\* s in t, for two str.
IsSubstr(s, t) ==
    \E k \in 0..(Len(t) - Len(s)) : \A j \in 1..Len(s) : t[k + j] = s[j]

\* a < b, for two str.
RECURSIVE StrLess(_, _)
StrLess(a, b) ==
    IF b = <<>> THEN FALSE
    ELSE IF a = <<>> THEN TRUE
    ELSE IF Head(a) = Head(b) THEN StrLess(Tail(a), Tail(b))
    ELSE Ord(Head(a)) < Ord(Head(b))

TxtAll == <<"A", "l", "l">>
TxtFemale == <<"F", "e", "m", "a", "l", "e">>

ListPages == {"view", "edit", "delete", "share"}

search_cols == {"SerialNo", "Name", "Email", "PhoneNo"}

\* The columns a page searches, and the columns its tree shows.
SearchedColumnsAll(page) == DEFAULT_COLUMNS
SearchedColumns(page) == IF page = "share" THEN search_cols ELSE DEFAULT_COLUMNS
ShownColumns(page) == IF page = "share" THEN search_cols ELSE DEFAULT_COLUMNS

\* A sequence given by a rule, with its elements worked out.
AsSeq(f) == SubSeq(f, 1, Len(f))

\* df = self.patients_df.copy(); every row remembers the row of patients_df
\* it was copied from.
Frame(df) == AsSeq([i \in 1..Len(df) |-> [at |-> i, row |-> df[i]]])

\* s = (self.search_var.get() or "").strip().lower()
SearchText(raw) == Lower(Strip(raw))

\* any(s in str(cell).lower() for cell in r)
RowMatches(row, s, cols) == \E col \in cols : IsSubstr(s, Lower(PyStr(row[col])))

Searched(fr, raw, cols) ==
    IF SearchText(raw) = <<>> THEN fr
    ELSE SelectSeq(fr, LAMBDA x : RowMatches(x.row, SearchText(raw), cols))

\* if gender_filter != "All": df = df[df['Gender'] == gender_filter]
GenderFiltered(fr, gender) ==
    IF gender = TxtAll THEN fr
    ELSE SelectSeq(fr, LAMBDA x : EqStr(x.row["Gender"], gender))

\* df[sort_by] = pd.to_numeric(df[sort_by], errors='coerce'): an int64 column
\* when every value parses, else float64 with NaN.
Coerced(fr, col) ==
    LET asFloat == \E i \in 1..Len(fr) :
                       ~ToNumeric(fr[i].row[col]).ok \/ fr[i].row[col].k = "flt"
        Cell(c) == IF ~ToNumeric(c).ok THEN NaN
                   ELSE IF asFloat THEN FltCell(ToNumeric(c).v)
                   ELSE IntCell(ToNumeric(c).v)
    IN  AsSeq([i \in 1..Len(fr) |->
                  [at |-> fr[i].at, row |-> [fr[i].row EXCEPT ![col] = Cell(fr[i].row[col])]]])

IsNum(c) == c.k \in {"int", "flt"}

\* a < b between two values of a column that are not NaN.
KeyLess(a, b) == IF IsNum(a) THEN a.n < b.n ELSE StrLess(a.s, b.s)

\* '<' is not supported between a str and a number.
Unorderable(fr, col) ==
    \E i \in 1..Len(fr), j \in 1..Len(fr) :
        fr[i].row[col].k = "str" /\ IsNum(fr[j].row[col])

RECURSIVE Perms(_)
Perms(S) ==
    IF S = {} THEN {<<>>}
    ELSE UNION {{<<x>> \o p : p \in Perms(S \ {x})} : x \in S}

\* The orders argsort(kind='quicksort') can give to the positions S, whose
\* below[x] counts the positions with a smaller key: ascending by key, the
\* positions of equal keys in any order.
RECURSIVE Arrange(_, _, _)
Arrange(S, below, done) ==
    IF S = {} THEN {<<>>}
    ELSE LET least == {x \in S : below[x] = done}
         IN  UNION {{p \o rest : rest \in Arrange(S \ least, below, done + Cardinality(least))} :
                        p \in Perms(least)}

\* df.sort_values(by=col, na_position='last'): the rows with a key in one of
\* the orders of argsort, then the rows whose key is NaN as they stood.
Orders(fr, col) ==
    LET live == {i \in 1..Len(fr) : fr[i].row[col].k # "nan"}
        below == AsSeq([i \in 1..Len(fr) |->
                     IF i \notin live THEN 0
                     ELSE Cardinality({j \in live : KeyLess(fr[j].row[col], fr[i].row[col])})])
        last == SelectSeq(fr, LAMBDA x : x.row[col].k = "nan")
    IN  {[k \in 1..Len(p) |-> fr[p[k]]] \o last : p \in Arrange(live, below, 0)}

\* The sorting step of _get_filtered_df and _edit_get_filtered_df; a sort
\* that raises is swallowed and leaves the frame as it is.
Sorted(fr, sort_by) ==
    IF sort_by \notin DEFAULT_COLUMNS THEN {fr}
    ELSE LET work == IF sort_by \in {"SerialNo", "Age"} THEN Coerced(fr, sort_by) ELSE fr
         IN  IF Unorderable(work, sort_by) THEN {work} ELSE Orders(work, sort_by)

\* _get_filtered_df, _edit_get_filtered_df, _delete_get_filtered_df,
\* _share_get_filtered_df: the frames the call can return.
GetFilteredDf(page, df, search, gender, sort_by) ==
    IF page \in {"view", "edit"}
    THEN Sorted(GenderFiltered(Searched(Frame(df), search, DEFAULT_COLUMNS), gender), sort_by)
    ELSE {Searched(Frame(df), search, SearchedColumns(page))}

\* self.patients_df once a page's filter has run: the filter works on
\* df = self.patients_df.copy(), and the to_numeric column is assigned to
\* that copy.
SourceAfterFilterShared(page, df, sort_by) ==
    IF page \in {"view", "edit"} /\ sort_by \in {"SerialNo", "Age"}
    THEN [i \in 1..Len(df) |-> Coerced(Frame(df), sort_by)[i].row]
    ELSE df
SourceAfterFilter(page, df, sort_by) == df

PyMax(a, b) == IF a >= b THEN a ELSE b
PyMin(a, b) == IF a <= b THEN a ELSE b

\* total_pages = max(1, (len(df) + PAGE_SIZE - 1) // PAGE_SIZE)
TotalPagesFloor(n) == PyMax(1, n \div PAGE_SIZE)
TotalPages(n) == PyMax(1, (n + PAGE_SIZE - 1) \div PAGE_SIZE)

\* df.iloc[start:start + PAGE_SIZE] with start = i * PAGE_SIZE
PageSlice(fr, i) == SubSeq(fr, i * PAGE_SIZE + 1, PyMin(Len(fr), i * PAGE_SIZE + PAGE_SIZE))

\* vals = [r.get(c, '') for c in columns of the tree]
TreeRows(page, fr) ==
    [k \in 1..Len(fr) |->
        [at |-> fr[k].at, row |-> [c \in ShownColumns(page) |-> fr[k].row[c]]]]

\* if self.current_page['i'] >= total: self.current_page['i'] = 0
PageShownKept(i, total) == i
PageShownLast(i, total) == IF i >= total THEN total - 1 ELSE i
PageShown(i, total) == IF i >= total THEN 0 ELSE i

\* _view_refresh, _edit_refresh, _delete_refresh, _share_refresh on the
\* frame fr that the page's filter returned; checked holds the displayed
\* rows whose checkbox_state is True, none after checkbox_state.clear().
RefreshedKeepTicks(page, search, gender, sort_by, i, fr) ==
    LET total == TotalPages(Len(fr))
        shown == PageShown(i, total)
        rows == TreeRows(page, PageSlice(fr, shown))
    IN  [page |-> page, search |-> search, gender |-> gender, sort_by |-> sort_by,
         i |-> shown, rows |-> rows, total |-> Len(fr), pages |-> total,
         checked |-> view.checked \cap (1..Len(rows))]
Refreshed(page, search, gender, sort_by, i, fr) ==
    LET total == TotalPages(Len(fr))
        shown == PageShown(i, total)
    IN  [page |-> page, search |-> search, gender |-> gender, sort_by |-> sort_by,
         i |-> shown, rows |-> TreeRows(page, PageSlice(fr, shown)),
         total |-> Len(fr), pages |-> total, checked |-> {}]

\* The sort keys among the columns of the model; StartDate and EndDate are
\* sorted as Name is.
sort_options == {"SerialNo", "Name", "Age"}

\* gender_options = ["All"] + list(self.patients_df['Gender'].dropna().unique())
GenderOptions(df) ==
    {TxtAll} \cup {PyStr(df[i]["Gender"]) : i \in {j \in 1..Len(df) : df[j]["Gender"].k # "nan"}}

\* What the user can type into the search box.
Searches == {<<>>, <<" ">>, <<"B">>, <<"N">>, <<"3", "0", " ">>}

ViewRow(serial, name, gender, age) ==
    [SerialNo |-> serial, PhotoPath |-> NaN, Name |-> name, Email |-> StrCell(TxtMail),
     Gender |-> gender, Age |-> age, PhoneNo |-> IntCell(7), AadharNo |-> NaN]

\* A sheet of n patients, the newest first.
LongSheet(n) ==
    [i \in 1..n |->
        ViewRow(IntCell(n + 1 - i), StrCell(<<"P">> \o NatStr(i)),
                StrCell(IF i % 2 = 0 THEN TxtFemale ELSE TxtMale), IntCell(20 + i))]

\* The sheets the pages are opened on: none, two patients of the same age,
\* serials and ages that do not parse, a Name column that mixes text with a
\* number; for the list pages also lists of one page, one page and a row,
\* and MaxListLen.
SmallSheets ==
    {<<>>,
     <<ViewRow(IntCell(1), StrCell(TxtA), StrCell(TxtMale), IntCell(30)),
       ViewRow(IntCell(2), StrCell(TxtB), StrCell(TxtFemale), IntCell(30)),
       ViewRow(IntCell(3), StrCell(TxtA), StrCell(TxtMale), IntCell(25))>>,
     <<ViewRow(StrCell(TxtB), StrCell(TxtB), StrCell(TxtFemale), NaN),
       ViewRow(IntCell(2), StrCell(TxtA), StrCell(TxtMale), IntCell(30)),
       ViewRow(StrCell(TxtA), StrCell(TxtA), NaN, StrCell(TxtB))>>,
     <<ViewRow(IntCell(2), IntCell(7), StrCell(TxtMale), IntCell(30)),
       ViewRow(IntCell(1), StrCell(TxtA), StrCell(TxtFemale), IntCell(25))>>}

ViewSheets ==
    SmallSheets \cup {LongSheet(PAGE_SIZE), LongSheet(PAGE_SIZE + 1), LongSheet(MaxListLen)}

InitView ==
    /\ file \in ViewSheets
    /\ patients_df = LoadPatients(file)
    /\ ev = Event("start", 0, <<>>, FALSE)
    /\ save_failures = 0
    /\ disk = FreshDisk
    /\ view = NoView

\* show_view_records, show_edit_patients, show_delete_patients,
\* show_share_details
ShowList(page) ==
    LET gender == IF page \in {"view", "edit"} THEN TxtAll ELSE NoView.gender
        sort_by == IF page \in {"view", "edit"} THEN "SerialNo" ELSE NoView.sort_by
    IN  /\ \E fr \in GetFilteredDf(page, patients_df, <<>>, gender, sort_by) :
               view' = Refreshed(page, <<>>, gender, sort_by, 0, fr)
        /\ ev' = Event("show_list", 0, <<>>, FALSE)
        /\ patients_df' = SourceAfterFilter(page, patients_df, sort_by)
        /\ UNCHANGED <<file, save_failures, disk>>

\* The Filter button, Return in the search box, a choice in a combobox, the
\* Refresh button (the query set back to its defaults).
Filter(search, gender, sort_by) ==
    /\ view.page \in ListPages
    /\ IF view.page \in {"view", "edit"}
       THEN gender \in GenderOptions(patients_df) /\ sort_by \in sort_options
       ELSE gender = view.gender /\ sort_by = view.sort_by
    /\ \E fr \in GetFilteredDf(view.page, patients_df, search, gender, sort_by) :
           view' = Refreshed(view.page, search, gender, sort_by, view.i, fr)
    /\ ev' = Event("refresh", view.i, <<>>, FALSE)
    /\ patients_df' = SourceAfterFilter(view.page, patients_df, sort_by)
    /\ UNCHANGED <<file, save_failures, disk>>

\* prev_page, next_page, _edit_page_change, _delete_page_change,
\* _share_page_change
PageChange(delta) ==
    /\ view.page \in ListPages
    /\ \E fr \in GetFilteredDf(view.page, patients_df, view.search, view.gender, view.sort_by) :
           /\ 0 <= view.i + delta
           /\ view.i + delta < TotalPages(Len(fr))
    /\ \E fr \in GetFilteredDf(view.page, patients_df, view.search, view.gender, view.sort_by) :
           view' = Refreshed(view.page, view.search, view.gender, view.sort_by, view.i + delta, fr)
    /\ ev' = Event("page_change", 0, <<>>, FALSE)
    /\ patients_df' = SourceAfterFilter(view.page, patients_df, view.sort_by)
    /\ UNCHANGED <<file, save_failures, disk>>

(***************************************************************************)
(* Pages and buttons that only read the table.                             *)
(***************************************************************************)
\* self.patients_df once statistics are drawn: df is a copy, or the new
\* frame of a boolean selection, and df['Age'] is assigned to it.
SourceAfterStats(df) == df

\* _share_get_selected_records: the rows whose SerialNo is among the texts
\* of the ticked rows of the share list.
SelectedRecords(df, checked) ==
    SelectSeq(df, LAMBDA r : IsIn(r.SerialNo, {TreeText(view.rows[k].row["SerialNo"]) : k \in checked}))

\* The tick boxes as the user leaves them: none ticked, or all (Toggle All).
Ticks == {{}, 1..Len(view.rows)}

\* int((df["Gender"] == g).sum())
GenderCountAnyCase(df, g) ==
    Cardinality({i \in 1..Len(df) : df[i].Gender.k = "str" /\ Lower(df[i].Gender.s) = Lower(g)})
GenderCount(df, g) == Cardinality({i \in 1..Len(df) : df[i].Gender = StrCell(g)})

\* pd.to_numeric(df['Age'], errors='coerce') and the sum and the count that
\* mean() takes over the values that are not NaN.
RECURSIVE AgeSum(_)
AgeSum(df) ==
    IF df = <<>> THEN [sum |-> 0, count |-> 0]
    ELSE LET age == ToNumeric(Head(df).Age)
             rest == AgeSum(Tail(df))
         IN  IF age.ok THEN [sum |-> rest.sum + age.v, count |-> rest.count + 1] ELSE rest

\* total, males, females, others and avg_age of the two statistics windows;
\* avg_age is sum / count, and NaN when count = 0.
Stats(df) ==
    LET total == Len(df)
        males == GenderCount(df, TxtMale)
        females == GenderCount(df, TxtFemale)
    IN  [total |-> total, males |-> males, females |-> females,
         others |-> total - males - females, avg_age |-> AgeSum(df)]

\* The Average Age label: f"{avg_age:.1f}", behind pd.notna(avg_age) when
\* guarded; the digits of a number are those of avg_age and are not spelt out.
AverageLabel(avg_age, guarded) ==
    IF avg_age.count > 0 THEN "number"
    ELSE IF guarded THEN "N/A" ELSE "nan"

\* The window of labels a statistics handler opens on df.
StatsWindow(df, guarded) ==
    [stats |-> Stats(df), average |-> AverageLabel(AgeSum(df), guarded)]

\* _show_stats
ShowStats ==
    /\ ev' = IF patients_df = <<>> THEN Event("show_stats", 0, <<>>, FALSE)
             ELSE StatsWindow(patients_df, TRUE) @@ Event("show_stats", Len(patients_df), <<>>, FALSE)
    /\ patients_df' = SourceAfterStats(patients_df)
    /\ UNCHANGED <<file, save_failures, disk, view>>

\* _share_show_stats
ShareShowStats(checked) ==
    LET df == SelectedRecords(patients_df, checked)
        shown == Event("share_show_stats", Len(df),
                       IF checked = {} THEN <<"showwarning: No records selected.">> ELSE <<>>, FALSE)
    IN  /\ view.page = "share"
        /\ ev' = IF checked = {} \/ df = <<>> THEN shown ELSE StatsWindow(df, FALSE) @@ shown
        /\ patients_df' = SourceAfterStats(patients_df)
        /\ UNCHANGED <<file, save_failures, disk, view>>

\* _share_export_excel and _share_export_pdf: target is FALSE when the file
\* dialog is cancelled; the file written is the one the user names, a file
\* other than patients.xlsx.
ShareExport(kind, checked, target, ok) ==
    LET df == SelectedRecords(patients_df, checked)
        msgs == IF checked = {} THEN <<"showwarning: No records selected.">>
                ELSE IF df = <<>> \/ ~target THEN <<>>
                ELSE IF kind = "excel" THEN (IF ok THEN <<"showinfo: Exported">> ELSE <<"showerror: Could not export">>)
                ELSE (IF ok THEN <<"showinfo: Saved PDF">> ELSE <<"showerror: Could not export PDF">>)
    IN  /\ view.page = "share"
        /\ (checked = {} \/ df = <<>> \/ ~target) => ok
        /\ checked = {} => target
        /\ ev' = Event("share_export", Len(df), msgs, FALSE)
        /\ UNCHANGED <<patients_df, file, save_failures, disk, view>>

\* _export_all
ExportAll(target, ok) ==
    LET msgs == IF patients_df = <<>> THEN <<"showinfo: No patient records to export">>
                ELSE IF ~target THEN <<>>
                ELSE IF ok THEN <<"showinfo: Exported">> ELSE <<"showerror: Could not export">>
    IN  /\ (patients_df = <<>> \/ ~target) => ok
        /\ patients_df = <<>> => target
        /\ ev' = Event("export_all", Len(patients_df), msgs, FALSE)
        /\ UNCHANGED <<patients_df, file, save_failures, disk, view>>

\* _backup_db: shutil.copy2 of patients.xlsx to patients_backup_<time>.xlsx
BackupDb(ok) ==
    /\ disk.state = "absent" => ok
    /\ ev' = Event("backup_db", 0,
                   IF disk.state = "absent" THEN <<"showwarning: No data file to backup">>
                   ELSE IF ok THEN <<"showinfo: Backup created">> ELSE <<"showerror: Could not backup">>, FALSE)
    /\ UNCHANGED <<patients_df, file, save_failures, disk, view>>

\* a < b between two values that are not NaN, as the sort on several keys
\* orders them: numbers before str.
MixedLess(a, b) ==
    IF IsNum(a) /\ IsNum(b) THEN a.n < b.n
    ELSE IF IsNum(a) THEN TRUE
    ELSE IF IsNum(b) THEN FALSE
    ELSE StrLess(a.s, b.s)

CellBefore(a, b) == a.k # "nan" /\ (b.k = "nan" \/ MixedLess(a, b))

CellTie(a, b) == ~CellBefore(a, b) /\ ~CellBefore(b, a)

\* Row i stands before row j under sort_values(by=['Name', 'SerialNo']).
DupBefore(df, i, j) ==
    \/ CellBefore(df[i]["Name"], df[j]["Name"])
    \/ /\ CellTie(df[i]["Name"], df[j]["Name"])
       /\ \/ CellBefore(df[i]["SerialNo"], df[j]["SerialNo"])
          \/ CellTie(df[i]["SerialNo"], df[j]["SerialNo"]) /\ i < j

\* df_dups, each row with its position in the table.
DupList(df) ==
    LET rows == DupRows(df)
        rank == [i \in rows |-> Cardinality({j \in rows : DupBefore(df, j, i)})]
    IN  [k \in 1..Cardinality(rows) |->
            LET i == CHOOSE x \in rows : rank[x] = k - 1
            IN  [at |-> i, row |-> df[i]]]

\* show_duplicate_page
ShowDuplicatePage ==
    /\ view' = [page |-> "duplicates", search |-> <<>>, gender |-> NoView.gender,
                sort_by |-> NoView.sort_by, i |-> 0, rows |-> DupList(patients_df),
                total |-> Len(DupList(patients_df)), pages |-> 0, checked |-> {}]
    /\ ev' = Event("show_duplicate_page", Len(DupList(patients_df)), <<>>, FALSE)
    /\ UNCHANGED <<patients_df, file, save_failures, disk>>

InitRead ==
    /\ file \in SmallSheets \cup {LongSheet(PAGE_SIZE + 1)}
    /\ patients_df = LoadPatients(file)
    /\ ev = Event("start", 0, <<>>, FALSE)
    /\ save_failures = 0
    /\ disk = FreshDisk
    /\ view = NoView

KeyRow(serial, name, email, phone, aadhar) ==
    [SerialNo |-> IntCell(serial), PhotoPath |-> NaN, Name |-> name, Email |-> email,
     Gender |-> StrCell(TxtMale), Age |-> IntCell(30), PhoneNo |-> phone, AadharNo |-> aadhar]

\* The sheets the duplicates page is opened on: none; two patients alike and
\* a third; two patients without any of the four keys; two alike in all four
\* keys and one who lacks the AadharNo.
DupSheets ==
    {<<>>,
     <<KeyRow(1, StrCell(TxtA), StrCell(TxtMail), IntCell(7), NaN),
       KeyRow(2, StrCell(TxtA), StrCell(TxtMail), IntCell(7), NaN),
       KeyRow(3, StrCell(TxtB), StrCell(TxtMail), IntCell(7), NaN)>>,
     <<KeyRow(1, NaN, NaN, NaN, NaN),
       KeyRow(2, NaN, NaN, NaN, NaN),
       KeyRow(3, StrCell(TxtA), StrCell(TxtMail), IntCell(7), NaN)>>,
     <<KeyRow(1, StrCell(TxtB), StrCell(TxtMail), IntCell(7), IntCell(12)),
       KeyRow(2, StrCell(TxtB), StrCell(TxtMail), IntCell(7), NaN),
       KeyRow(3, StrCell(TxtB), StrCell(TxtMail), IntCell(7), IntCell(12))>>}

InitDup ==
    /\ file \in DupSheets
    /\ patients_df = LoadPatients(file)
    /\ ev = Event("start", 0, <<>>, FALSE)
    /\ save_failures = 0
    /\ disk = FreshDisk
    /\ view = NoView
\* The sheets rows are hidden on: those of the duplicates page and one of
\* three patients alike.
InitMark ==
    /\ file \in DupSheets \cup
                {<<KeyRow(1, StrCell(TxtA), StrCell(TxtMail), IntCell(7), NaN),
                   KeyRow(2, StrCell(TxtA), StrCell(TxtMail), IntCell(7), NaN),
                   KeyRow(3, StrCell(TxtA), StrCell(TxtMail), IntCell(7), NaN)>>}
    /\ patients_df = LoadPatients(file)
    /\ ev = Event("start", 0, <<>>, FALSE)
    /\ save_failures = 0
    /\ disk = FreshDisk
    /\ view = NoView

\* The sheets statistics are taken of: up to MaxStatRows patients whose
\* Gender is Male, Female, male or blank and whose Age is a number, the text
\* of a number, another text or blank.
StatSheets ==
    LET genders == {StrCell(TxtMale), StrCell(TxtFemale), StrCell(Lower(TxtMale)), NaN}
        ages == {IntCell(25), StrCell(TxtAge), StrCell(TxtB), NaN}
    IN  UNION {[1..n -> genders \X ages] : n \in 0..MaxStatRows}

InitStats ==
    /\ \E sheet \in StatSheets :
          file = [i \in 1..Len(sheet) |-> ViewRow(IntCell(i), StrCell(TxtA), sheet[i][1], sheet[i][2])]
    /\ patients_df = LoadPatients(file)
    /\ ev = Event("start", 0, <<>>, FALSE)
    /\ save_failures = 0
    /\ disk = FreshDisk
    /\ view = NoView

\* The Age entry as the user may fill it in: numbers, signed numbers, a
\* number with a blank before it, a text that is no number.
AgeTexts ==
    {TxtAge, <<"0">>, <<"-", "5">>, <<"+", "3">>, <<" ", "7">>, <<"b", "a", "d">>, <<"3", ".", "5">>}

\* _new_submit on the form show_new_patient left, with the Age filled in.
NewSubmitAge ==
    \E a \in AgeTexts, ok \in BOOLEAN :
        NewSubmitOn([BaseForm(IntStr(NextSerial(patients_df))) EXCEPT !.age = a], ok)


(***************************************************************************)
(* Tick boxes of the delete, share and duplicates lists.                   *)
(***************************************************************************)
TickPages == {"delete", "share", "duplicates"}

\* on_click on the box of the k-th displayed row
OnClick(k) ==
    /\ view.page \in TickPages
    /\ k \in 1..Len(view.rows)
    /\ view' = [view EXCEPT !.checked = IF k \in @ THEN @ \ {k} ELSE @ \cup {k}]
    /\ ev' = Event("on_click", 0, <<>>, FALSE)
    /\ UNCHANGED <<patients_df, file, save_failures, disk>>

\* _delete_toggle_all, _share_toggle_all
ToggleAll ==
    /\ view.page \in {"delete", "share"}
    /\ view' = [view EXCEPT !.checked =
                   IF view.rows # <<>> /\ @ = 1..Len(view.rows) THEN {} ELSE 1..Len(view.rows)]
    /\ ev' = Event("toggle_all", 0, <<>>, FALSE)
    /\ UNCHANGED <<patients_df, file, save_failures, disk>>

\* for iid in iids_to_remove: tree.delete(iid); del self.checkbox_state[iid]
HideRowsAll(rows, checked) == <<>>
HideRows(rows, checked) ==
    LET kept == SelectSeq([k \in 1..Len(rows) |-> k], LAMBDA k : k \notin checked)
    IN  [j \in 1..Len(kept) |-> rows[kept[j]]]

\* mark_as_not_duplicate
MarkAsNotDuplicate ==
    /\ view.page = "duplicates"
    /\ IF view.checked = {}
       THEN /\ ev' = Event("mark_as_not_duplicate", 0,
                           <<"showwarning: Select records to mark as not duplicate.">>, FALSE)
            /\ view' = view
       ELSE /\ ev' = Event("mark_as_not_duplicate", Cardinality(view.checked),
                           <<"showinfo: record(s) hidden from this view.">>, FALSE)
            /\ view' = [view EXCEPT !.rows = HideRows(view.rows, view.checked),
                                    !.checked = {}]
    /\ UNCHANGED <<patients_df, file, save_failures, disk>>

\* The duplicates list as show_duplicate_page builds it from df
DuplicatesView(df) ==
    [page |-> "duplicates", search |-> <<>>, gender |-> NoView.gender,
     sort_by |-> NoView.sort_by, i |-> 0, rows |-> DupList(df),
     total |-> Len(DupList(df)), pages |-> 0, checked |-> {}]

\* delete_selected_duplicates on the rows ticked in the list, with the
\* show_duplicate_page() that ends it
DeleteTickedDuplicates ==
    /\ view.page = "duplicates"
    /\ view.rows # <<>>
    /\ \E confirm \in BOOLEAN, ok \in BOOLEAN :
          /\ DeleteSelectedDuplicatesOn({view.rows[k].at : k \in view.checked}, confirm, ok)
          /\ view' = IF view.checked = {} \/ ~confirm THEN view ELSE DuplicatesView(patients_df')
    /\ UNCHANGED disk

\* _delete_checked on the rows ticked in the delete list, with the
\* show_delete_patients() that ends it; lists of up to MaxRows rows and of
\* a page and a row are deleted from.
DeleteTicked ==
    /\ view.page = "delete"
    /\ Len(patients_df) <= MaxRows \/ Len(patients_df) = PAGE_SIZE + 1
    /\ \E confirm \in BOOLEAN, ok \in BOOLEAN :
          /\ DeleteCheckedOn({view.rows[k].at : k \in view.checked}, confirm, ok)
          /\ IF view.checked = {} \/ ~confirm
             THEN view' = view
             ELSE \E fr \in GetFilteredDf("delete", patients_df', <<>>, NoView.gender, NoView.sort_by) :
                     view' = Refreshed("delete", <<>>, NoView.gender, NoView.sort_by, 0, fr)
    /\ UNCHANGED disk

\* The sheets boxes are ticked on: those of the list pages, a list of a page
\* and a row, and two patients whose serials are 01 and 1.
InitTick ==
    /\ file \in SmallSheets \cup
                {LongSheet(PAGE_SIZE + 1),
                 <<ViewRow(StrCell(<<"0", "1">>), StrCell(TxtA), StrCell(TxtMale), IntCell(30)),
                   ViewRow(IntCell(1), StrCell(TxtB), StrCell(TxtFemale), IntCell(25))>>}
    /\ patients_df = LoadPatients(file)
    /\ ev = Event("start", 0, <<>>, FALSE)
    /\ save_failures = 0
    /\ disk = FreshDisk
    /\ view = NoView

(***************************************************************************)
(* Specifications.  Spec is the record store with every handler that can   *)
(* add, remove or renumber a row.  SpecNew is the registration form with   *)
(* the edit window that makes the serials of the table uneven, SpecEdit    *)
(* the edit window with its photo buttons, SpecImport the import.          *)
(***************************************************************************)
Next ==
    \/ ShowNewPatient /\ StoreOnly
    \/ NewSubmit /\ StoreOnly
    \/ SaveChanges /\ StoreOnly
    \/ DeleteChecked /\ StoreOnly
    \/ ImportDb /\ StoreOnly
    \/ EditDuplicateSerial /\ StoreOnly
    \/ DeleteSelectedDuplicates /\ StoreOnly

Spec == Init /\ [][Next]_vars

NextNew ==
    \/ ShowNewPatient /\ StoreOnly
    \/ NewSubmit /\ StoreOnly
    \/ SaveChanges /\ StoreOnly

SpecNew == Init /\ [][NextNew]_vars

NextEdit ==
    \/ NewSubmit /\ StoreOnly
    \/ SaveChanges /\ StoreOnly
    \/ EditAddPhoto /\ StoreOnly
    \/ EditRemovePhoto /\ StoreOnly

SpecEdit == Init /\ [][NextEdit]_vars

NextImport ==
    \/ NewSubmit /\ StoreOnly
    \/ SaveChanges /\ StoreOnly
    \/ ImportDb /\ StoreOnly

SpecImport == Init /\ [][NextImport]_vars

NextStart ==
    \/ EnsureDatafile
    \/ LoadAtStart

SpecStart == InitStart /\ [][NextStart]_vars

NextSave == SaveStep

SpecSave == InitSave /\ [][NextSave]_vars

NextView ==
    \/ \E page \in ListPages : ShowList(page)
    \/ \E search \in Searches, gender \in {TxtAll, TxtMale, TxtFemale, NoView.gender},
          sort_by \in sort_options \cup {NoView.sort_by} :
           Filter(search, gender, sort_by)
    \/ \E delta \in {-1, 1} : PageChange(delta)

SpecView == InitView /\ [][NextView]_vars

NextRead ==
    \/ NextView
    \/ ShowStats
    \/ \E checked \in Ticks : ShareShowStats(checked)
    \/ \E kind \in {"excel", "pdf"}, checked \in Ticks, target \in BOOLEAN, ok \in BOOLEAN :
           ShareExport(kind, checked, target, ok)
    \/ \E target \in BOOLEAN, ok \in BOOLEAN : ExportAll(target, ok)
    \/ \E ok \in BOOLEAN : BackupDb(ok)
    \/ ShowDuplicatePage

SpecRead == InitRead /\ [][NextRead]_vars

NextDup ==
    \/ SaveChanges /\ StoreOnly
    \/ ShowDuplicatePage

SpecDup == InitDup /\ [][NextDup]_vars

NextMark ==
    \/ ShowDuplicatePage
    \/ \E k \in 1..MaxRows : OnClick(k)
    \/ MarkAsNotDuplicate
    \/ DeleteTickedDuplicates

SpecMark == InitMark /\ [][NextMark]_vars

NextStats ==
    \/ ShowList("share")
    \/ \E k \in 1..MaxStatRows : OnClick(k)
    \/ ToggleAll
    \/ ShowStats
    \/ ShareShowStats(view.checked)

SpecStats == InitStats /\ [][NextStats]_vars

NextAge ==
    \/ ShowNewPatient /\ StoreOnly
    \/ NewSubmitAge /\ StoreOnly

SpecAge == Init /\ [][NextAge]_vars

NextTick ==
    \/ \E page \in ListPages : ShowList(page)
    \/ \E search \in {<<>>, TxtB}, gender \in {TxtAll, TxtFemale, NoView.gender},
          sort_by \in {"SerialNo", "Age", NoView.sort_by} :
           Filter(search, gender, sort_by)
    \/ \E delta \in {-1, 1} : PageChange(delta)
    \/ \E k \in 1..MaxRows : OnClick(k)
    \/ ToggleAll
    \/ DeleteTicked

SpecTick == InitTick /\ [][NextTick]_vars

(***************************************************************************)
(* Properties.                                                             *)
(***************************************************************************)
\* The text of a row's SerialNo.
SerialText(r) == PyStr(r.SerialNo)

SerialTexts(df) == [i \in 1..Len(df) |-> SerialText(df[i])]

\* The rows whose SerialNo reads as the text s.
RowsWithSerial(df, s) == {i \in 1..Len(df) : SerialText(df[i]) = s}

\* The forms the registration page can submit in the current state.
FormsNow == NewForms(IntStr(NextSerial(patients_df)))

OnlyBlanks(s) == \A i \in 1..Len(s) : s[i] = " "

\* A form that validation must reject.
InvalidForm(form) ==
    \/ \E j \in 1..Len(RequiredFields) : OnlyBlanks(form[RequiredFields[j]])
    \/ ~PyInt(form.age).ok
    \/ ~PyInt(form.serial).ok

ValidationErrors ==
    {ErrFill(RequiredFields[j]) : j \in 1..Len(RequiredFields)} \cup {"showerror: Age must be a numeric value.", "showerror: Serial must be numeric"}

Untouched == patients_df' = patients_df /\ file' = file

\* C1: SerialNo is unique across the rows of the in-memory table in every
\* reachable state, save failures included: no two rows carry the same
\* SerialNo.
C1_SerialUnique ==
    \A i \in 1..Len(patients_df), j \in 1..Len(patients_df) :
        i # j => SerialText(patients_df[i]) # SerialText(patients_df[j])

\* C2: a Create whose proposed SerialNo (the text of the number entered)
\* is already the SerialNo text of a row fails with the conflict error and
\* leaves the table and the backing file as they were.
C2_DuplicateCreateRejected ==
    [][\A form \in FormsNow :
          (/\ ~InvalidForm(form)
           /\ RowsWithSerial(patients_df, IntStr(PyInt(form.serial).v)) # {}
           /\ \E ok \in BOOLEAN : NewSubmitOn(form, ok))
          => (ev'.msgs = <<"showerror: Serial number already exists.">> /\ Untouched)]_vars

\* C3: a Create with a required field blank after trimming, a non-numeric
\* Age or a non-numeric SerialNo shows a validation error and changes
\* neither the table nor the backing file.
C3_InvalidCreateRejected ==
    [][\A form \in FormsNow :
          (InvalidForm(form) /\ \E ok \in BOOLEAN : NewSubmitOn(form, ok))
          => (/\ Len(ev'.msgs) = 1
              /\ ev'.msgs[1] \in ValidationErrors
              /\ Untouched)]_vars

\* A rejected Create (bad Age) on a table that holds rows.
C3_Witness ==
    /\ ev.op = "new_submit"
    /\ ev.msgs = <<"showerror: Age must be a numeric value.">>
    /\ Len(patients_df) > 0

\* The numeric SerialNo values, row by row.
IsNumericSerial(r) == ToNumeric(r.SerialNo).ok
SerialNumber(r) == ToNumeric(r.SerialNo).v

\* n is the largest numeric SerialNo of df plus one, or 1 when df has none.
IsNextSerial(df, n) ==
    /\ (\A i \in 1..Len(df) : ~IsNumericSerial(df[i])) => n = 1
    /\ \A i \in 1..Len(df) : IsNumericSerial(df[i]) => SerialNumber(df[i]) < n
    /\ (\E i \in 1..Len(df) : IsNumericSerial(df[i]))
          => \E i \in 1..Len(df) : IsNumericSerial(df[i]) /\ SerialNumber(df[i]) = n - 1

\* The registration form has just been opened or cleared.
SerialOffered ==
    \/ ev.op = "show_new_patient"
    \/ ev.op = "new_submit" /\ ev.msgs[Len(ev.msgs)] = "showinfo: Patient registered"

\* C4: the serial the registration form offers is the largest numeric
\* SerialNo of the table plus one, 1 when no SerialNo is numeric; rows with
\* a non-numeric SerialNo are ignored and the offered serial is greater than
\* every numeric SerialNo.
C4_NextSerial == SerialOffered => IsNextSerial(patients_df, ev.n)

\* The form is opened on a table that holds a non-numeric SerialNo beside
\* numeric ones.
C4_Witness ==
    /\ ev.op = "show_new_patient"
    /\ \E i \in 1..Len(patients_df) : ~IsNumericSerial(patients_df[i])
    /\ \E i \in 1..Len(patients_df) : IsNumericSerial(patients_df[i])
    /\ ev.n > 2

\* The table and the file an Update of row i with patch must leave behind.
Updated(df, i, patch) ==
    [df EXCEPT ![i] =
        [col \in DEFAULT_COLUMNS |->
            IF col = "PhotoPath" THEN df[i][col] ELSE StrCell(patch[col])]]

\* C5: with no save ever having failed, an Update through the edit window
\* of a row that is in the table, at any position, the first included,
\* whose patch takes no SerialNo of another row, succeeds: that row carries
\* the patch and the table is written and read back.
C5_UpdateExistingSucceeds ==
    [][\A orig \in WindowSerials, patch \in Patches :
          (/\ save_failures = 0
           /\ Cardinality(RowsWithSerial(patients_df, orig)) = 1
           /\ patch.SerialNo = orig \/ RowsWithSerial(patients_df, patch.SerialNo) = {}
           /\ SaveChangesOn(orig, patch, TRUE))
          => \E i \in RowsWithSerial(patients_df, orig) :
                /\ ev'.msgs = <<"showinfo: Patient updated">>
                /\ file' = Updated(patients_df, i, patch)
                /\ patients_df' = LoadPatients(file')]_vars

\* A failure that is reported: an error dialog, and no exception left to
\* the event loop.
ErrorReported(e) ==
    /\ ~e.raised
    /\ Len(e.msgs) = 1
    /\ e.msgs[1] \in {"showerror: Could not find patient to update.", "showerror: Could not update photo", "showerror: Could not remove photo"}

\* C6: with no save ever having failed, saving the edit window, adding a
\* photo or removing a photo for a SerialNo that no row has fails with a
\* reported error and changes neither the table nor the backing file.
C6_UpdateMissingReported ==
    [][save_failures = 0 =>
       /\ \A orig \in WindowSerials, patch \in Patches :
             (/\ RowsWithSerial(patients_df, orig) = {}
              /\ \E ok \in BOOLEAN : SaveChangesOn(orig, patch, ok))
             => (ErrorReported(ev') /\ Untouched)
       /\ \A serial \in PhotoSerials :
             (/\ RowsWithSerial(patients_df, serial) = {}
              /\ \E pick \in {"bad", "good"}, ok \in BOOLEAN : EditAddPhotoOn(serial, pick, ok))
             => (ErrorReported(ev') /\ Untouched)
       /\ \A serial \in PhotoSerials :
             (/\ RowsWithSerial(patients_df, serial) = {}
              /\ \E there \in BOOLEAN, answer \in {"yes", "fail"}, ok \in BOOLEAN :
                    EditRemovePhotoOn(serial, there, answer, ok))
             => (ErrorReported(ev') /\ Untouched)]_vars

\* C7: with no save ever having failed, an Update whose patch changes
\* SerialNo to the SerialNo of a different row fails with the conflict error
\* and leaves the table and the file as they were; so does the serial edit
\* of the duplicates page, which also refuses a serial that is not all
\* digits without changing the table.
C7_SerialConflictRejected ==
    [][save_failures = 0 =>
       /\ \A orig \in WindowSerials, patch \in Patches :
             (/\ patch.SerialNo # orig
              /\ \E i \in RowsWithSerial(patients_df, orig) :
                    RowsWithSerial(patients_df, patch.SerialNo) \ {i} # {}
              /\ \E ok \in BOOLEAN : SaveChangesOn(orig, patch, ok))
             => (ev'.msgs = <<"showerror: Serial number already exists.">> /\ Untouched)
       /\ \A i \in DupRows(patients_df), new_serial \in DupSerials \ {<<>>} :
             (/\ DupPageShown(patients_df)
              /\ SerialText(patients_df[i]) # new_serial
              /\ \E ok \in BOOLEAN : EditDuplicateSerialOn(i, new_serial, ok))
             => /\ ~IsDigitStr(new_serial)
                      => (ev'.msgs = <<"showerror: Serial number must be a numeric value.">> /\ Untouched)
                /\ (IsDigitStr(new_serial)
                       /\ RowsWithSerial(patients_df, new_serial) \ {i} # {})
                      => (ev'.msgs = <<"showerror: Serial number already exists.">> /\ Untouched)]_vars

\* The row positions of df that stay when the rows with a SerialNo in ids go.
Survivors(df, ids) == {i \in 1..Len(df) : SerialText(df[i]) \notin ids}

\* C8: with no save ever having failed, a confirmed Delete removes exactly
\* the rows whose SerialNo is in the identifier set the page hands over,
\* keeps the other rows in their order, and reports the number of rows
\* removed.
C8_DeleteExact ==
    [][\A checked \in (SUBSET (1..Len(patients_df))) \ {{}} :
          (/\ save_failures = 0
           /\ DeleteCheckedOn(checked, TRUE, TRUE))
          => LET ids == CheckedSerials(patients_df, checked)
                 kept == Survivors(patients_df, ids)
             IN  /\ Len(patients_df') = Cardinality(kept)
                 /\ \A i \in 1..Len(patients_df') :
                       \E k \in kept :
                          /\ Cardinality({m \in kept : m <= k}) = i
                          /\ patients_df'[i] = patients_df[k]
                 /\ ev'.n = Len(patients_df) - Len(patients_df')]_vars

\* The identifier sets a Delete can be given.
DeleteSets == SUBSET {<<"1">>, <<"2">>, <<"x">>}

\* The table after a Delete of ids whose save succeeds.
DeleteResult(df, ids) == LoadPatients(DropRows(df, ids))

\* C9: Delete is idempotent: on every table the program can hold, a second
\* Delete of the same identifier set leaves the table the first one made.
C9_DeleteIdempotent ==
    \A ids \in DeleteSets :
        DeleteResult(DeleteResult(patients_df, ids), ids) = DeleteResult(patients_df, ids)

\* The largest numeric SerialNo of df, 0 when there is none.
LargestSerial(df) ==
    IF \A i \in 1..Len(df) : ~IsNumericSerial(df[i]) THEN 0
    ELSE CHOOSE v \in 0..(MaxSerial + MaxRows) :
            /\ \E i \in 1..Len(df) : IsNumericSerial(df[i]) /\ SerialNumber(df[i]) = v
            /\ \A i \in 1..Len(df) : IsNumericSerial(df[i]) => SerialNumber(df[i]) <= v

C11_MemoryMatchesFile == patients_df = LoadPatients(file)

\* The dialogs with which a handler reports that it has done its work.
SuccessInfos ==
    {"showinfo: Patient registered", "showinfo: Patient updated", "showinfo: Photo updated successfully.", "showinfo: Photo removed successfully.", "showinfo: Deleted records", "showinfo: Database imported successfully.",
     "showinfo: Serial number updated.", "showinfo: Selected duplicates deleted."}

\* C12: a handler whose save fails to write the backing file reports the
\* failure and does not report success for that call.
C12_SaveFailureSurfaced ==
    [][save_failures' # save_failures
          => /\ \E k \in 1..Len(ev'.msgs) : ev'.msgs[k] = "showerror: Could not save patients.xlsx"
             /\ \A k \in 1..Len(ev'.msgs) : ev'.msgs[k] \notin SuccessInfos]_vars

CellText(c) ==
    IF IsBlank(c) THEN <<>>
    ELSE IF c.k = "flt" THEN IntStr(c.n) ELSE PyStr(c)

SameRows(t, u) ==
    /\ Len(t) = Len(u)
    /\ \A i \in 1..Len(t) : \A col \in DEFAULT_COLUMNS :
          CellText(t[i][col]) = CellText(u[i][col])

\* C14: the table read back after a save has the rows of the table that was
\* saved, in the same order, each cell saying what it said (the type of a
\* cell and the encoding of a blank may change).
C14_RoundTrip ==
    [][(ev'.op = "save_patients" /\ ev'.msgs = <<>>)
          => SameRows(patients_df, patients_df')]_vars

\* ceil(n / d)
Ceil(n, d) == CHOOSE k \in 0..n : k * d >= n /\ (k = 0 \/ (k - 1) * d < n)

\* The lists the open page's filter can return for the query on screen.
ListsNow == GetFilteredDf(view.page, patients_df, view.search, view.gender, view.sort_by)

\* The page on screen is page view.i of the list fr cut into `pages` pages:
\* it shows the rows at [i*PAGE_SIZE, i*PAGE_SIZE + PAGE_SIZE), a page before
\* the last is full, the last holds the rest, and the pages together hold
\* every row of fr once.
PagesOf(fr, pages) ==
    /\ view.total = Len(fr)
    /\ view.pages = pages
    /\ Len(view.rows) = IF view.i < pages - 1 THEN PAGE_SIZE
                        ELSE Len(fr) - view.i * PAGE_SIZE
    /\ \A k \in 1..Len(view.rows) :
          /\ view.rows[k].at = fr[view.i * PAGE_SIZE + k].at
          /\ \A c \in DOMAIN view.rows[k].row :
                view.rows[k].row[c] = fr[view.i * PAGE_SIZE + k].row[c]
    /\ \A pos \in 1..Len(fr) :
          Cardinality({kj \in (0..(pages - 1)) \X (1..PAGE_SIZE) :
                          /\ kj[2] <= Len(PageSlice(fr, kj[1]))
                          /\ kj[1] * PAGE_SIZE + kj[2] = pos
                          /\ PageSlice(fr, kj[1])[kj[2]] = fr[pos]}) = 1
    /\ \A k \in 0..(pages - 1) : \A j \in 1..Len(PageSlice(fr, k)) :
          k * PAGE_SIZE + j <= Len(fr)

\* C15 as stated: the pages of a list page partition the filtered and
\* sorted list, and there are ceil(totalCount / PAGE_SIZE) of them.
C15_PagesPartitionCeil ==
    view.page \in ListPages => \E fr \in ListsNow : PagesOf(fr, Ceil(Len(fr), PAGE_SIZE))

\* C15, amended: the pages of a list page partition the filtered and sorted
\* list, and there are ceil(totalCount / PAGE_SIZE) of them, but one (empty)
\* page when the list is empty.
C15_PagesPartition ==
    view.page \in ListPages =>
        \E fr \in ListsNow :
            PagesOf(fr, IF Len(fr) = 0 THEN 1 ELSE Ceil(Len(fr), PAGE_SIZE))

C15_Witness ==
    /\ view.page \in ListPages
    /\ view.total = 2 * PAGE_SIZE + 1
    /\ view.pages = 3
    /\ view.i = 2
    /\ Len(view.rows) = 1

\* C16 as stated: a refresh asked for a page index beyond the last page shows
\* the last page, and with no rows there are 0 pages and the index is 0.
C16_ClampedToLast ==
    [][ev'.op = "refresh" =>
          LET pages == Ceil(view'.total, PAGE_SIZE)
          IN  /\ view'.pages = pages
              /\ view'.i = IF pages = 0 THEN 0
                           ELSE IF view.i > pages - 1 THEN pages - 1 ELSE view.i]_vars

\* C16, amended: there are max(1, ceil(totalCount / PAGE_SIZE)) pages; a
\* refresh whose page index is beyond the last page shows the first page,
\* any other keeps its index; the index on screen is always a valid one.
C16_ResetToFirst ==
    /\ [][ev'.op = "refresh" =>
            LET pages == IF view'.total = 0 THEN 1 ELSE Ceil(view'.total, PAGE_SIZE)
            IN  /\ view'.pages = pages
                /\ view'.i = IF view.i > pages - 1 THEN 0 ELSE view.i]_vars
    /\ [](view.page \in ListPages => view.i \in 0..(view.pages - 1))

\* On the third page, a filter left more than one page, fewer than three.
C16_Witness ==
    /\ ev.op = "refresh"
    /\ ev.n = 2
    /\ view.pages = 2
    /\ view.i = 0

\* The sort key of the table row a shown row was copied from.
KeyOf(shown) == ToNumeric(patients_df[shown.at][view.sort_by])

InOriginalOrder(rows) == \A k \in 1..Len(rows), l \in 1..Len(rows) : k < l => rows[k].at < rows[l].at

\* C17: on the view and edit pages sorted by SerialNo or Age the rows on
\* screen ascend by the numeric value of the key, the rows whose key does
\* not parse come after those whose key parses, rows of equal key (and the
\* rows without a key) stand in the order of the table; a sort that cannot
\* be performed leaves the order of the table, and nothing is raised.
C17_NumericStableSort ==
    view.page \in {"view", "edit"} =>
        /\ ~ev.raised
        /\ view.sort_by \in {"SerialNo", "Age"} =>
              \A k \in 1..Len(view.rows), l \in 1..Len(view.rows) :
                  k < l =>
                      LET a == KeyOf(view.rows[k])
                          b == KeyOf(view.rows[l])
                      IN  /\ a.ok /\ b.ok => a.v <= b.v
                          /\ ~a.ok => ~b.ok
                          /\ (a.ok = b.ok /\ a.v = b.v) => view.rows[k].at < view.rows[l].at
        /\ (\/ view.sort_by \notin DEFAULT_COLUMNS
            \/ view.sort_by = "Name" /\ Unorderable(Frame(patients_df), "Name"))
              => InOriginalOrder(view.rows)

\* The table rows that hold the text s in one of the columns cols and whose
\* Gender is the one the filter on screen asks for.
Matching(s, cols) ==
    {i \in 1..Len(patients_df) :
        /\ s # <<>> => \E col \in cols : IsSubstr(s, Lower(PyStr(patients_df[i][col])))
        /\ view.gender \notin {TxtAll, NoView.gender} => patients_df[i]["Gender"] = StrCell(view.gender)}

ListIs(rows) ==
    /\ view.total = Cardinality(rows)
    /\ \A k \in 1..Len(view.rows) : view.rows[k].at \in rows

\* C18 as stated: on every list page the list is made of exactly the table
\* rows that hold the lowercased search text in the lowercased text of one of
\* their columns, whichever column, and match the gender filter.
C18_SearchAnyColumn ==
    view.page \in ListPages => ListIs(Matching(Lower(view.search), DEFAULT_COLUMNS))

\* C18, amended: the search text is trimmed before it is used, and the share
\* page looks for it in SerialNo, Name, Email and PhoneNo only; the text of
\* a cell is str(cell), 'nan' for a blank.
C18_SearchTrimmedColumns ==
    view.page \in ListPages =>
        ListIs(Matching(Lower(Strip(view.search)),
                        IF view.page = "share" THEN {"SerialNo", "Name", "Email", "PhoneNo"}
                        ELSE DEFAULT_COLUMNS))

\* The share page searched for 30: no row listed, though there are patients
\* aged 30.
C18_Witness ==
    /\ view.page = "share"
    /\ Strip(view.search) = <<"3", "0">>
    /\ view.total = 0
    /\ \E i \in 1..Len(patients_df) : patients_df[i]["Age"] = IntCell(30)

ReadOps ==
    {"show_list", "refresh", "page_change", "show_stats", "share_show_stats",
     "share_export", "export_all", "backup_db", "show_duplicate_page"}

KeyColumns == {"Name", "Email", "PhoneNo", "AadharNo"}

NonEmptyKey(r) == \E col \in KeyColumns : ~IsBlank(r[col])

SameTuple(r, q) == \A col \in KeyColumns : CellText(r[col]) = CellText(q[col])

\* The rows with a key that share their four key values with another row.
Groups(df) ==
    {i \in 1..Len(df) :
        /\ NonEmptyKey(df[i])
        /\ \E j \in 1..Len(df) : j # i /\ NonEmptyKey(df[j]) /\ SameTuple(df[i], df[j])}

\* C20: the duplicates page lists exactly the rows that have a value in one
\* of Name, Email, PhoneNo, AadharNo and share the four values with another
\* such row.
C20_DuplicateGroups ==
    [][ev'.op = "show_duplicate_page" =>
          {view'.rows[k].at : k \in 1..Len(view'.rows)} = Groups(patients_df)]_vars

ShownAt(rows) == {rows[k].at : k \in 1..Len(rows)}

\* C21: marking as not duplicate takes the ticked rows, and no other, out
\* of the list and leaves no row ticked; the table and patients.xlsx stay as
\* they are; the list as next built holds every duplicate of the table
\* again.
C21_MarkHidesOnly ==
    /\ [][ev'.op = "mark_as_not_duplicate" =>
            /\ patients_df' = patients_df /\ file' = file /\ disk' = disk
            /\ ShownAt(view'.rows) = {view.rows[k].at : k \in (1..Len(view.rows)) \ view.checked}
            /\ Len(view'.rows) = Len(view.rows) - Cardinality(view.checked)
            /\ view'.checked = {}]_vars
    /\ [][(ev'.op = "show_duplicate_page" /\ view.page = "duplicates") =>
            /\ ShownAt(view.rows) \subseteq ShownAt(view'.rows)
            /\ ShownAt(view'.rows) = DupRows(patients_df)]_vars

\* One of two duplicates was hidden.
C21_Witness ==
    /\ ev.op = "mark_as_not_duplicate"
    /\ ev.n = 1
    /\ Len(view.rows) = 1
    /\ Cardinality(DupRows(patients_df)) = 2

\* A statistics window was opened by the step, on the frame df.
StatsOf(df) ==
    \/ ev'.op = "show_stats" /\ patients_df # <<>> /\ df = patients_df
    \/ /\ ev'.op = "share_show_stats"
       /\ "stats" \in DOMAIN ev'
       /\ df = SelectedRecords(patients_df, view.checked)

GenderIs(r, g) == r.Gender.k = "str" /\ r.Gender.s = g

CountsOf(s, df) ==
    /\ s.total = Len(df)
    /\ s.males = Len(SelectSeq(df, LAMBDA r : GenderIs(r, TxtMale)))
    /\ s.females = Len(SelectSeq(df, LAMBDA r : GenderIs(r, TxtFemale)))
    /\ s.others = Len(SelectSeq(df, LAMBDA r : ~GenderIs(r, TxtMale) /\ ~GenderIs(r, TxtFemale)))
    /\ s.males >= 0 /\ s.females >= 0 /\ s.others >= 0
    /\ s.males + s.females + s.others = s.total

\* C22: in both statistics windows total is the number of rows summarized,
\* Male and Female count the rows whose Gender is exactly that word, Other
\* counts every other row, blank or not; the three are not negative and add
\* up to total.
C22_GenderCounts ==
    [][\A df \in {patients_df, SelectedRecords(patients_df, view.checked)} :
          StatsOf(df) => CountsOf(ev'.stats, df)]_vars

\* Statistics of two ticked patients, one Male and one with Gender male.
C22_Witness ==
    /\ ev.op = "share_show_stats"
    /\ "stats" \in DOMAIN ev
    /\ ev.stats.total = 2 /\ ev.stats.males = 1 /\ ev.stats.others = 1
    /\ \E i \in 1..Len(patients_df) : GenderIs(patients_df[i], Lower(TxtMale))

RECURSIVE SumOf(_, _)
SumOf(df, S) ==
    IF S = {} THEN 0
    ELSE LET i == CHOOSE x \in S : TRUE
         IN  ToNumeric(df[i].Age).v + SumOf(df, S \ {i})

Parsed(df) == {i \in 1..Len(df) : ToNumeric(df[i].Age).ok}

\* C23: in both statistics windows the average age is the sum of the Age
\* values that parse as numbers over their count, the other rows left out
\* of both, and the label reads N/A when no Age parses.
C23_AverageAge ==
    [][\A df \in {patients_df, SelectedRecords(patients_df, view.checked)} :
          StatsOf(df) =>
             /\ ev'.stats.avg_age.count = Cardinality(Parsed(df))
             /\ ev'.stats.avg_age.sum = SumOf(df, Parsed(df))
             /\ ev'.average = IF Parsed(df) = {} THEN "N/A" ELSE "number"]_vars

AgeIsNatural(r) == ToNumeric(r.Age).ok /\ ToNumeric(r.Age).v >= 0

\* C24: every patient that registration accepted has an Age that reads as
\* an integer of 0 or more, and registering with a negative Age is refused
\* with the table and patients.xlsx left as they were.
C24_AgeNonNegative ==
    /\ [](\A i \in 1..Len(patients_df) : AgeIsNatural(patients_df[i]))
    /\ [][\A a \in AgeTexts :
            (/\ PyInt(a).ok /\ PyInt(a).v < 0
             /\ \E ok \in BOOLEAN :
                   NewSubmitOn([BaseForm(IntStr(NextSerial(patients_df))) EXCEPT !.age = a], ok))
            => (ev'.msgs = <<"showerror: Age must be a numeric value.">> /\ Untouched)]_vars

\* C25: in every state that registering, editing, changing a serial on the
\* duplicates page, deleting and importing lead to, the SerialNo of every
\* row is the text of an integer greater than 0.
C25_SerialPositive ==
    \A i \in 1..Len(patients_df) :
        /\ IsDigitStr(SerialText(patients_df[i]))
        /\ DigitsVal(SerialText(patients_df[i])) > 0

Rebuilds == {"show_list", "refresh", "page_change", "show_duplicate_page"}

\* C26: after every rebuild of a list with tick boxes (opening the page, a
\* filter, a refresh, a page change) the boxes are those of the rows now
\* shown and none is ticked, whatever was ticked before.
C26_TicksDiscarded ==
    /\ [](view.checked \subseteq 1..Len(view.rows))
    /\ []((ev.op \in Rebuilds /\ view.page \in TickPages) => view.checked = {})
    /\ [][(ev'.op = "delete_checked" /\ view' # view) => view'.checked = {}]_vars

\* One ticked patient was deleted and the list rebuilt shows the others,
\* none ticked.
C26_Witness ==
    /\ ev.op = "delete_checked"
    /\ ev.n = 1
    /\ view.page = "delete"
    /\ view.rows # <<>>
    /\ view.checked = {}

\* C27: whatever pages are turned, filters set, lists refreshed and rows
\* deleted, the page of a list on screen has an index from 0 and below
\* max(1, ceil(filteredCount / PAGE_SIZE)); Prev and Next move the index by
\* one and never out of that range, so Prev on the first page and Next on
\* the last leave it.
C27_PageInRange ==
    /\ [](view.page \in ListPages =>
            /\ \E fr \in ListsNow : view.total = Len(fr)
            /\ 0 <= view.i
            /\ view.i < PyMax(1, Ceil(view.total, PAGE_SIZE)))
    /\ [][ev'.op = "page_change" =>
            /\ view'.i \in {view.i - 1, view.i + 1}
            /\ view'.i \in 0..(PyMax(1, Ceil(view'.total, PAGE_SIZE)) - 1)]_vars

\* The patient on the second page was deleted: one page is left.
C27_Witness ==
    /\ ev.op = "delete_checked"
    /\ ev.n = 1
    /\ view.total = PAGE_SIZE
    /\ view.i = 0
    /\ \A k \in 1..Len(view.rows) : patients_df[view.rows[k].at].Name # StrCell(<<"P">> \o NatStr(PAGE_SIZE + 1))

\* The table rows whose box is ticked in the list on screen.
TickedRows == {view.rows[k].at : k \in view.checked}

\* new is what is left of the rows of old from position k on when some of
\* the rows of S, and no other, are taken out.
RECURSIVE LeftOf(_, _, _, _)
LeftOf(new, old, k, S) ==
    IF k > Len(old) THEN new = <<>>
    ELSE \/ /\ new # <<>>
            /\ SameRows(<<Head(new)>>, <<old[k]>>)
            /\ LeftOf(Tail(new), old, k + 1, S)
         \/ /\ k \in S
            /\ LeftOf(new, old, k + 1, S)

\* C28: Delete Selected removes only rows that are shown, ticked, on the
\* page on screen when it is pressed: every other row is in the table
\* afterwards, in its order; with no box ticked, or the question answered
\* no, the table and patients.xlsx stay as they are.
C28_DeletesTickedOnly ==
    [][ev'.op = "delete_checked" =>
          /\ LeftOf(patients_df', patients_df, 1, TickedRows)
          /\ (view.checked = {} \/ ev'.msgs = <<>>) => Untouched]_vars

====
